---- MODULE Spec2Model ----
(***************************************************************************)
(* Dream-Comic-AI: the server's panel extraction, generation pipeline and  *)
(* response assembly (dream_comic_generator_server.py), and the client's   *)
(* history store and view state (dream_comic_generator_client.py).         *)
(*                                                                         *)
(* Text is modelled as a sequence of tokens.  The tokens "Panel", " ",     *)
(* "\t", "\n", ":", "[", "]" and the digits are the characters and words   *)
(* the code searches for; every other token is an atomic piece of prose    *)
(* that holds none of them and neither starts nor ends with whitespace.    *)
(* On such text Python's substring test, split and strip act on tokens     *)
(* exactly as they act on the characters.                                  *)
(***************************************************************************)
EXTENDS Integers, Sequences, FiniteSets, TLC

VARIABLES
    content,        \* the text handed to extract_panels (the chat reply)
    extracted,      \* what extract_panels returned for content, or NotRun
    pc,             \* control position of the request being served
    entry,          \* "api" (api_generate_comic) or "cli" (main)
    request,        \* the request's fields / the command line's arguments
    params,         \* the arguments of the generate_dream_comic call
    session_id,     \* session id minted for the request, or None
    comic_panels,   \* generate_dream_comic's comic_panels / its return value
    i,              \* loop index of the image and translation loops
    calls,          \* external calls issued so far, in order
    fs,             \* paths that exist on disk
    response,       \* the HTTP response returned, or None
    uuids,          \* how many uuid4() session ids have been minted
    view_mode,          \* st.session_state.view_mode of the client
    selected_session,   \* st.session_state.selected_session, or NoSelection
    refresh_history,    \* st.session_state.refresh_history
    history_dir,        \* whether the client's dream_comics directory exists
    dream_comics,       \* the session directories under dream_comics, by name
    served              \* how many comics the server has returned to the client

serverVars == <<content, extracted, pc, entry, request, params, session_id, comic_panels,
                i, calls, fs, response, uuids>>

clientVars == <<view_mode, selected_session, refresh_history, history_dir, dream_comics,
                served>>

vars == <<serverVars, clientVars>>

None == "None"
NotRun == [raised |-> FALSE, panels |-> [x \in {} |-> <<>>]]
NoParams == [dream_text |-> <<>>, output_file |-> <<>>, generate_images |-> FALSE,
             output_dir |-> <<>>, translate_to_chinese |-> FALSE]
NoRequest == [kind |-> "none"]
NoResponse == [status |-> 0]
NoSelection == [session_id |-> None]

-----------------------------------------------------------------------------
(* Bounds *)

\* most lines of a free-form input text of extract_panels
MaxLines == 3

\* most continuation lines after each marker line of a marked input text
MaxCont == 1

\* most uuid4() values minted in one run of the server
MaxUuids == 4

-----------------------------------------------------------------------------
(* Python string and dict primitives on token sequences *)

Whitespace == {" ", "\t"}

Digit(n) == <<"1", "2", "3", "4">>[n]

\* pat in s
Contains(s, pat) ==
    \E k \in 1..(Len(s) - Len(pat) + 1) : SubSeq(s, k, k + Len(pat) - 1) = pat

RECURSIVE LStrip(_)
LStrip(s) ==
    IF s # <<>> /\ Head(s) \in Whitespace THEN LStrip(Tail(s)) ELSE s

RECURSIVE RStrip(_)
RStrip(s) ==
    IF s # <<>> /\ s[Len(s)] \in Whitespace
    THEN RStrip(SubSeq(s, 1, Len(s) - 1))
    ELSE s

\* s.strip()
Strip(s) == RStrip(LStrip(s))

\* index of the first token t of s, 0 when there is none
FirstIndex(s, t) ==
    IF \E k \in 1..Len(s) : s[k] = t
    THEN CHOOSE k \in 1..Len(s) : s[k] = t /\ \A j \in 1..(k - 1) : s[j] # t
    ELSE 0

\* s.split(sep, 1): the list of one or two parts
Split1(s, sep) ==
    LET k == FirstIndex(s, sep)
    IN  IF k = 0 THEN <<s>>
        ELSE <<SubSeq(s, 1, k - 1), SubSeq(s, k + 1, Len(s))>>

\* s.split(sep): the list of all parts ("".split(sep) is [""])
RECURSIVE Split(_, _)
Split(s, sep) ==
    LET k == FirstIndex(s, sep)
    IN  IF k = 0 THEN <<s>>
        ELSE <<SubSeq(s, 1, k - 1)>> \o Split(SubSeq(s, k + 1, Len(s)), sep)

\* d[k] = v on a dict
DictSet(d, k, v) == [x \in (DOMAIN d) \cup {k} |-> IF x = k THEN v ELSE d[x]]

EmptyDict == [x \in {} |-> <<>>]

\* f"panel{i}"
PanelKey(n) == <<"panel1", "panel2", "panel3", "panel4">>[n]

\* the literal "Panel N"
Marker(n) == <<"Panel", " ", Digit(n)>>

\* f"[Panel {i} description not found]"
Placeholder(n) == <<"[", "Panel", " ", Digit(n), " ", "description not found", "]">>

-----------------------------------------------------------------------------
(* extract_panels *)

\* SetPanel without the ":" in line guard
SetPanelNoGuard(st, n, line) ==
    LET parts == Split1(line, ":")
    IN  IF Len(parts) < 2
        THEN [st EXCEPT !.raised = TRUE]
        ELSE [st EXCEPT !.current_panel = PanelKey(n),
                        !.panels = DictSet(st.panels, PanelKey(n), Strip(parts[2]))]

\* SetPanel keeping the description a panel already has
SetPanelKeepFirst(st, n, line) ==
    LET parts == Split1(line, ":")
    IN  IF PanelKey(n) \in DOMAIN st.panels
        THEN [st EXCEPT !.current_panel = PanelKey(n)]
        ELSE [st EXCEPT !.current_panel = PanelKey(n),
                        !.panels = DictSet(st.panels, PanelKey(n),
                                           IF Contains(line, <<":">>)
                                           THEN Strip(parts[2]) ELSE <<>>)]

\* the branch body of a marker line (lines 220-221 and its three copies);
\* indexing part [1] of a one-part split raises IndexError
SetPanel(st, n, line) ==
    LET parts == Split1(line, ":")
    IN  IF Contains(line, <<":">>)
        THEN IF Len(parts) < 2
             THEN [st EXCEPT !.raised = TRUE]
             ELSE [st EXCEPT !.current_panel = PanelKey(n),
                             !.panels = DictSet(st.panels, PanelKey(n), Strip(parts[2]))]
        ELSE [st EXCEPT !.current_panel = PanelKey(n),
                        !.panels = DictSet(st.panels, PanelKey(n), <<>>)]

\* AppendLine appending the line as it is, untrimmed
AppendLineUntrimmed(st, line) ==
    IF st.current_panel \notin DOMAIN st.panels
    THEN [st EXCEPT !.raised = TRUE]
    ELSE [st EXCEPT !.panels[st.current_panel] = @ \o <<" ">> \o line]

\* the elif branch of lines 231-233; += on a missing key raises KeyError
AppendLine(st, line) ==
    IF st.current_panel \notin DOMAIN st.panels
    THEN [st EXCEPT !.raised = TRUE]
    ELSE [st EXCEPT !.panels[st.current_panel] = @ \o <<" ">> \o Strip(line)]

\* one iteration of the loop over the lines (lines 218-233)
ExtractLine(st, line) ==
    IF st.raised THEN st
    ELSE IF Contains(line, Marker(1) \o <<":">>) \/ Contains(line, Marker(1))
         THEN SetPanel(st, 1, line)
    ELSE IF Contains(line, Marker(2) \o <<":">>) \/ Contains(line, Marker(2))
         THEN SetPanel(st, 2, line)
    ELSE IF Contains(line, Marker(3) \o <<":">>) \/ Contains(line, Marker(3))
         THEN SetPanel(st, 3, line)
    ELSE IF Contains(line, Marker(4) \o <<":">>) \/ Contains(line, Marker(4))
         THEN SetPanel(st, 4, line)
    ELSE IF st.current_panel # None /\ Strip(line) # <<>>
         THEN AppendLine(st, line)
    ELSE st

RECURSIVE ScanLines(_, _)
ScanLines(st, lines) ==
    IF lines = <<>> THEN st
    ELSE ScanLines(ExtractLine(st, Head(lines)), Tail(lines))

\* EnsureAllPanels giving the placeholder to an empty description too
RECURSIVE EnsureAllPanelsAlsoEmpty(_, _)
EnsureAllPanelsAlsoEmpty(panels, n) ==
    IF n > 4 THEN panels
    ELSE EnsureAllPanelsAlsoEmpty(
            IF PanelKey(n) \notin DOMAIN panels \/ panels[PanelKey(n)] = <<>>
            THEN DictSet(panels, PanelKey(n), Placeholder(n))
            ELSE panels,
            n + 1)

\* "Ensure we have all four panels" (lines 236-239)
RECURSIVE EnsureAllPanels(_, _)
EnsureAllPanels(panels, n) ==
    IF n > 4 THEN panels
    ELSE EnsureAllPanels(
            IF PanelKey(n) \notin DOMAIN panels
            THEN DictSet(panels, PanelKey(n), Placeholder(n))
            ELSE panels,
            n + 1)

\* extract_panels(content): [raised |-> an exception left the function,
\*                           panels |-> the dict returned]
extract_panels(text) ==
    LET st == ScanLines([panels |-> EmptyDict, current_panel |-> None, raised |-> FALSE],
                        Split(text, "\n"))
    IN  IF st.raised
        THEN [raised |-> TRUE, panels |-> EmptyDict]
        ELSE [raised |-> FALSE, panels |-> EnsureAllPanels(st.panels, 1)]

-----------------------------------------------------------------------------
(* Input texts *)

\* "\n".join(lines)
RECURSIVE Join(_)
Join(lines) ==
    IF lines = <<>> THEN <<>>
    ELSE IF Len(lines) = 1 THEN lines[1]
    ELSE lines[1] \o <<"\n">> \o Join(Tail(lines))

Subject(n) == <<"A cat.", "A dog.", "A bird.", "A fish.">>[n]

\* "Panel N: A cat." and its siblings
LnPanel(n) == Marker(n) \o <<":", " ", Subject(n)>>
LnBare == Marker(3) \o <<":">>                          \* "Panel 3:"
LnNoColon == Marker(2)                                  \* "Panel 2"
LnTwo == Marker(2) \o <<":", " ", "unlike", " ">> \o Marker(1)   \* "Panel 2: unlike Panel 1"
LnPre == <<"Note", ":", " ">> \o Marker(4) \o <<" ", "ends">>   \* "Note: Panel 4 ends"
LnCont == <<" ", "and more", " ">>                      \* " and more "
LnBlank == <<" ">>                                      \* " "
LnRef == <<"see", " ", "[", "Panel", " ", "5", "]">>    \* "see [Panel 5]"
LnProse == <<"Some unrelated text with no markers">>

Lines == {LnPanel(n) : n \in 1..4}
         \cup {LnBare, LnNoColon, LnTwo, LnPre, LnCont, LnBlank, LnRef, LnProse}

\* free-form texts: up to MaxLines lines, any order, repeats allowed
ShortTexts == {Join(ls) : ls \in UNION {[1..k -> Lines] : k \in 0..MaxLines}}

\* what may follow "Panel N:" on its line
Tails(n) ==
    {<<" ", Subject(n)>>,
     IF n \in {1, 3} THEN <<>> ELSE <<" ", "Time", ":", " ", "noon", " ">>}

ContLines == {LnCont, LnBlank}

ContBlocks == UNION {[1..k -> ContLines] : k \in 0..MaxCont}

\* marked texts: "Panel 1:" .. "Panel 4:" lines in order, each followed by
\* up to MaxCont continuation lines
MarkedTexts ==
    {Join(<<Marker(1) \o <<":">> \o t[1]>> \o c[1] \o
          <<Marker(2) \o <<":">> \o t[2]>> \o c[2] \o
          <<Marker(3) \o <<":">> \o t[3]>> \o c[3] \o
          <<Marker(4) \o <<":">> \o t[4]>> \o c[4]) :
        t \in {f \in [1..4 -> UNION {Tails(n) : n \in 1..4}] :
                    \A n \in 1..4 : f[n] \in Tails(n)},
        c \in [1..4 -> ContBlocks]}

ExtractInputs == ShortTexts \cup MarkedTexts

-----------------------------------------------------------------------------
(* extract_panels applied to every input text *)

\* the client before its first run: session state as lines 15-20 set it, no
\* dream_comics directory
ClientStart ==
    /\ view_mode = "new"
    /\ selected_session = NoSelection
    /\ refresh_history = FALSE
    /\ history_dir = FALSE
    /\ dream_comics = EmptyDict
    /\ served = 0

Idle ==
    /\ ClientStart
    /\ entry = None
    /\ request = NoRequest
    /\ params = NoParams
    /\ session_id = None
    /\ comic_panels = EmptyDict
    /\ i = 0
    /\ calls = <<>>
    /\ response = NoResponse
    /\ uuids = 0

InitExtract ==
    /\ content \in ExtractInputs
    /\ extracted = NotRun
    /\ pc = "extract"
    /\ fs = {}
    /\ Idle

ExtractPanels ==
    /\ pc = "extract"
    /\ extracted' = extract_panels(content)
    /\ pc' = "extracted"
    /\ UNCHANGED clientVars
    /\ UNCHANGED <<content, entry, request, params, session_id, comic_panels, i,
                   calls, fs, response, uuids>>

NextExtract == ExtractPanels

SpecExtract == InitExtract /\ [][NextExtract]_vars

-----------------------------------------------------------------------------
(* generate_dream_comic: the try block (lines 102-204) *)

\* f"{panel_key}_image", f"{panel_key}_chinese", f"panel_{i}.png"
ImageKey(n) == <<"panel1_image", "panel2_image", "panel3_image", "panel4_image">>[n]
ChineseKey(n) == <<"panel1_chinese", "panel2_chinese", "panel3_chinese", "panel4_chinese">>[n]
PanelFile(n) == <<"panel_1.png", "panel_2.png", "panel_3.png", "panel_4.png">>[n]

\* paths are sequences of components
OUTPUT_FOLDER == <<"output">>
UPLOAD_FOLDER == <<"uploads">>
Cwd == <<".">>
PathJoin(dir, name) == dir \o <<name>>
Dirname(path) == SubSeq(path, 1, Len(path) - 1)
Basename(path) == path[Len(path)]
PathExists(files, path) == path \in files

FailedImage == <<"Failed to generate image">>
NoValidDescription == <<"No valid description for image generation">>
TranslationNotAvailable == <<"Translation not available">>
ProviderMessage == <<"provider error text">>
ChatException == <<"chat request raised">>
MakedirsException == <<"FileNotFoundError">>

\* the reply of the translation service for text
Translated(text) == <<"(zh)">> \o text

\* ValidForImage testing only that the description is not empty
ValidForImageNonEmpty(description) == description # <<>>

\* ValidForImage letting every description through
ValidForImageAlways(description) == TRUE

\* the test of line 154: the panel gets an image call
ValidForImage(description) ==
    description # <<>> /\ ~Contains(description, <<"[", "Panel">>)

\* the test of line 174: the panel gets no translation call
SkipTranslation(description) ==
    description = <<>> \/ Contains(description, <<"[", "Panel">>)

\* translate_to_traditional_chinese returning the marker when the call raises
translate_marker_on_failure(text, ok) ==
    IF ok THEN Translated(text) ELSE TranslationNotAvailable

\* translate_to_traditional_chinese(text), the service answering (ok) or
\* the call raising (lines 45-61)
translate_to_traditional_chinese(text, ok) ==
    IF ok THEN Translated(text) ELSE text

\* replies of the chat endpoint
ReplyFour == Join(<<LnPanel(1), LnPanel(2), LnPanel(3), LnPanel(4)>>)
ReplyProse == LnProse
ReplyNoThree == Join(<<LnPanel(1), LnPanel(2), LnPanel(4)>>)
ReplyEmpties == Join(<<LnPanel(1), LnNoColon, LnBare, LnPanel(4)>>)
ReplyRef == Join(<<LnPanel(1), LnRef, LnPanel(2), LnPanel(3), LnPanel(4)>>)
ReplyShuffled == Join(<<LnPanel(2), LnPanel(1), LnCont, LnPanel(2)>>)
ReplyEmpty == <<>>         \* result["choices"][0].get("content", "") at line 127
ChatReplies ==
    {ReplyFour, ReplyProse, ReplyNoThree, ReplyEmpties, ReplyRef, ReplyShuffled,
     ReplyEmpty}

Call(svc, n, prompt, ok) == [svc |-> svc, panel |-> n, prompt |-> prompt, ok |-> ok]

\* where control goes after the chat reply is parsed / after the image loop
AfterExtract(p) ==
    IF p.generate_images THEN "prepare"
    ELSE IF p.translate_to_chinese THEN "translate" ELSE "finish"

AfterImages(p) == IF p.translate_to_chinese THEN "translate" ELSE "finish"

\* lines 102-138: the chat call, the reply's content, extract_panels.  The
\* call raises, or answers with a status other than 200, or answers 200 with
\* a body from which lines 123-132 take the content (whichever of the four
\* shapes the body has, the content is one text)
ChatCompletion ==
    /\ pc = "chat"
    /\ \E outcome \in {"raises", "status_not_200", "ok"} :
        \/ /\ outcome = "raises"
           /\ calls' = Append(calls, Call("chat", 0, params.dream_text, FALSE))
           /\ comic_panels' = [error |-> ChatException]
           /\ pc' = "returned"
           /\ UNCHANGED <<content, i>>
        \/ /\ outcome = "status_not_200"
           /\ calls' = Append(calls, Call("chat", 0, params.dream_text, FALSE))
           /\ comic_panels' = [error |-> ProviderMessage]
           /\ pc' = "returned"
           /\ UNCHANGED <<content, i>>
        \/ /\ outcome = "ok"
           /\ \E reply \in ChatReplies :
                LET r == extract_panels(reply)
                IN  /\ calls' = Append(calls, Call("chat", 0, params.dream_text, TRUE))
                    /\ content' = reply
                    /\ IF r.raised
                       THEN /\ comic_panels' = [error |-> <<"extract_panels raised">>]
                            /\ pc' = "returned"
                            /\ UNCHANGED i
                       ELSE /\ comic_panels' = r.panels
                            /\ pc' = AfterExtract(params)
                            /\ i' = 1
    /\ UNCHANGED clientVars
    /\ UNCHANGED <<extracted, entry, request, params, session_id, fs, response, uuids>>

\* lines 141-146: choose and create the output directory
PrepareOutputDir ==
    /\ pc = "prepare"
    /\ LET dir == IF params.output_dir # <<>> THEN params.output_dir
                  ELSE IF params.output_file # <<>> THEN Dirname(params.output_file)
                  ELSE Cwd
       IN  IF ~PathExists(fs, dir) /\ dir = <<>>
           THEN \* os.makedirs("") raises; the except of line 202 returns the error
                /\ comic_panels' = [error |-> MakedirsException]
                /\ pc' = "returned"
                /\ UNCHANGED <<params, fs>>
           ELSE /\ params' = [params EXCEPT !.output_dir = dir]
                /\ fs' = fs \cup {dir}
                /\ pc' = "image"
                /\ UNCHANGED comic_panels
    /\ UNCHANGED clientVars
    /\ UNCHANGED <<content, extracted, entry, request, session_id, i, calls, response, uuids>>

\* GenerateImageStep with generate_image letting its exception out: the
\* except of line 202 ends the request with an error
GenerateImageStepAbort ==
    /\ pc = "image"
    /\ LET panel_key == PanelKey(i)
           image_path == PathJoin(params.output_dir, PanelFile(i))
       IN  IF ValidForImage(comic_panels[panel_key])
           THEN \E ok \in BOOLEAN :
                /\ calls' = Append(calls, Call("image", i, comic_panels[panel_key], ok))
                /\ fs' = IF ok THEN fs \cup {image_path} ELSE fs
                /\ comic_panels' = IF ok THEN DictSet(comic_panels, ImageKey(i), image_path)
                                   ELSE [error |-> FailedImage]
                /\ IF ~ok THEN i' = i /\ pc' = "returned"
                   ELSE IF i < 4 THEN i' = i + 1 /\ pc' = "image"
                   ELSE i' = 1 /\ pc' = AfterImages(params)
           ELSE /\ comic_panels' = DictSet(comic_panels, ImageKey(i), NoValidDescription)
                /\ UNCHANGED <<calls, fs>>
                /\ IF i < 4 THEN i' = i + 1 /\ pc' = "image"
                            ELSE i' = 1 /\ pc' = AfterImages(params)
    /\ UNCHANGED clientVars
    /\ UNCHANGED <<content, extracted, entry, request, params, session_id, response, uuids>>

\* one iteration of the image loop (lines 149-162), generate_image included
\* (lines 255-273): the file is saved and its path returned, or None
GenerateImageStep ==
    /\ pc = "image"
    /\ LET panel_key == PanelKey(i)
           image_path == PathJoin(params.output_dir, PanelFile(i))
       IN  IF ValidForImage(comic_panels[panel_key])
           THEN \E ok \in BOOLEAN :
                /\ calls' = Append(calls, Call("image", i, comic_panels[panel_key], ok))
                /\ fs' = IF ok THEN fs \cup {image_path} ELSE fs
                /\ comic_panels' = DictSet(comic_panels, ImageKey(i),
                                           IF ok THEN image_path ELSE FailedImage)
           ELSE /\ comic_panels' = DictSet(comic_panels, ImageKey(i), NoValidDescription)
                /\ UNCHANGED <<calls, fs>>
    /\ IF i < 4 THEN i' = i + 1 /\ pc' = "image"
                ELSE i' = 1 /\ pc' = AfterImages(params)
    /\ UNCHANGED clientVars
    /\ UNCHANGED <<content, extracted, entry, request, params, session_id, response, uuids>>

\* TranslateStep calling the service a second time when the first call fails
TranslateStepRetry ==
    /\ pc = "translate"
    /\ LET panel_description == comic_panels[PanelKey(i)]
       IN  IF SkipTranslation(panel_description)
           THEN /\ comic_panels' = DictSet(comic_panels, ChineseKey(i), TranslationNotAvailable)
                /\ UNCHANGED calls
           ELSE \E ok \in BOOLEAN, again \in BOOLEAN :
                /\ calls' = IF ok THEN Append(calls, Call("translate", i, panel_description, ok))
                            ELSE calls \o <<Call("translate", i, panel_description, FALSE),
                                            Call("translate", i, panel_description, again)>>
                /\ comic_panels' = DictSet(comic_panels, ChineseKey(i),
                                     translate_to_traditional_chinese(panel_description,
                                                                      ok \/ again))
    /\ IF i < 4 THEN i' = i + 1 /\ pc' = "translate"
                ELSE i' = 1 /\ pc' = "finish"
    /\ UNCHANGED clientVars
    /\ UNCHANGED <<content, extracted, entry, request, params, session_id, fs, response, uuids>>

\* one iteration of the translation loop (lines 169-187)
TranslateStep ==
    /\ pc = "translate"
    /\ LET panel_description == comic_panels[PanelKey(i)]
       IN  IF SkipTranslation(panel_description)
           THEN /\ comic_panels' = DictSet(comic_panels, ChineseKey(i), TranslationNotAvailable)
                /\ UNCHANGED calls
           ELSE \E ok \in BOOLEAN :
                /\ calls' = Append(calls, Call("translate", i, panel_description, ok))
                /\ comic_panels' = DictSet(comic_panels, ChineseKey(i),
                                     translate_to_traditional_chinese(panel_description, ok))
    /\ IF i < 4 THEN i' = i + 1 /\ pc' = "translate"
                ELSE i' = 1 /\ pc' = "finish"
    /\ UNCHANGED clientVars
    /\ UNCHANGED <<content, extracted, entry, request, params, session_id, fs, response, uuids>>

\* lines 191-200: write the output file, print, return comic_panels
Finish ==
    /\ pc = "finish"
    /\ fs' = IF params.output_file # <<>> THEN fs \cup {params.output_file} ELSE fs
    /\ pc' = "returned"
    /\ UNCHANGED clientVars
    /\ UNCHANGED <<content, extracted, entry, request, params, session_id, comic_panels,
                   i, calls, response, uuids>>

-----------------------------------------------------------------------------
(* api_generate_comic: the response (lines 354-381) *)

DictGet(d, k, default) == IF k \in DOMAIN d THEN d[k] ELSE default

\* PanelData giving a description only to a panel comic_result holds
PanelDataNoDefault(comic_result, files, sid, n) ==
    LET description == IF PanelKey(n) \in DOMAIN comic_result
                       THEN [description |-> comic_result[PanelKey(n)]]
                       ELSE EmptyDict
        chinese == IF ChineseKey(n) \in DOMAIN comic_result
                   THEN [chinese |-> comic_result[ChineseKey(n)]]
                   ELSE EmptyDict
        image == IF ImageKey(n) \in DOMAIN comic_result
                    /\ PathExists(files, comic_result[ImageKey(n)])
                 THEN [image_url |-> <<"/api/images", sid, Basename(comic_result[ImageKey(n)])>>]
                 ELSE EmptyDict
    IN  description @@ chinese @@ image

\* PanelData trusting the image key without looking at the disk
PanelDataNoExistsCheck(comic_result, files, sid, n) ==
    LET description == [description |-> DictGet(comic_result, PanelKey(n), Placeholder(n))]
        chinese == IF ChineseKey(n) \in DOMAIN comic_result
                   THEN [chinese |-> comic_result[ChineseKey(n)]]
                   ELSE EmptyDict
        image == IF ImageKey(n) \in DOMAIN comic_result
                 THEN [image_url |-> <<"/api/images", sid, Basename(comic_result[ImageKey(n)])>>]
                 ELSE EmptyDict
    IN  description @@ chinese @@ image

\* the entry of panel n in response_data['panels']
PanelData(comic_result, files, sid, n) ==
    LET description == [description |-> DictGet(comic_result, PanelKey(n), Placeholder(n))]
        chinese == IF ChineseKey(n) \in DOMAIN comic_result
                   THEN [chinese |-> comic_result[ChineseKey(n)]]
                   ELSE EmptyDict
        image == IF ImageKey(n) \in DOMAIN comic_result
                    /\ PathExists(files, comic_result[ImageKey(n)])
                 THEN [image_url |-> <<"/api/images", sid, Basename(comic_result[ImageKey(n)])>>]
                 ELSE EmptyDict
    IN  description @@ chinese @@ image

\* the loop of lines 361-378 from panel n on
RECURSIVE AssemblePanels(_, _, _, _, _)
AssemblePanels(panels, comic_result, files, sid, n) ==
    IF n > 4 THEN panels
    ELSE AssemblePanels(DictSet(panels, PanelKey(n), PanelData(comic_result, files, sid, n)),
                        comic_result, files, sid, n + 1)

AssembleResponse ==
    /\ pc = "returned"
    /\ entry = "api"
    /\ response' = [status |-> 200,
                    body |-> [session_id |-> session_id,
                              panels |-> AssemblePanels(EmptyDict, comic_panels, fs,
                                                        session_id, 1)]]
    /\ pc' = "responded"
    /\ UNCHANGED clientVars
    /\ UNCHANGED <<content, extracted, entry, request, params, session_id, comic_panels,
                   i, calls, fs, uuids>>

\* main(): generate_dream_comic has returned to the command line (lines 411-417)
CliReturn ==
    /\ pc = "returned"
    /\ entry = "cli"
    /\ pc' = "exited"
    /\ UNCHANGED clientVars
    /\ UNCHANGED <<content, extracted, entry, request, params, session_id, comic_panels,
                   i, calls, fs, response, uuids>>

DreamTexts == {<<"I was flying">>}

\* generate_dream_comic as api_generate_comic calls it (lines 346-352)
ApiParams(text, sid) ==
    [dream_text |-> text, output_file |-> <<>>, generate_images |-> TRUE,
     output_dir |-> PathJoin(OUTPUT_FOLDER, sid), translate_to_chinese |-> TRUE]

\* generate_dream_comic as main calls it (lines 411-417)
CliParams(text, output, gen, dir, tr) ==
    [dream_text |-> text, output_file |-> output, generate_images |-> gen,
     output_dir |-> dir, translate_to_chinese |-> tr]

\* the states in which the try block of generate_dream_comic is entered
InitBody ==
    /\ content = <<>>
    /\ extracted = NotRun
    /\ pc = "chat"
    /\ comic_panels = EmptyDict
    /\ i = 0
    /\ calls = <<>>
    /\ response = NoResponse
    /\ request = NoRequest
    /\ ClientStart
    /\ \/ /\ entry = "api"
          /\ session_id = "uuid-1"
          /\ uuids = 1
          /\ \E text \in DreamTexts : params = ApiParams(text, session_id)
          /\ fs = {Cwd, OUTPUT_FOLDER, UPLOAD_FOLDER, PathJoin(OUTPUT_FOLDER, session_id)}
       \/ /\ entry = "cli"
          /\ session_id = None
          /\ uuids = 0
          /\ \E text \in DreamTexts, output \in {<<>>, <<"comic.json">>},
                gen \in BOOLEAN, dir \in {<<>>, <<"cli_out">>}, tr \in BOOLEAN :
                params = CliParams(text, output, gen, dir, tr)
          /\ fs = {Cwd, OUTPUT_FOLDER, UPLOAD_FOLDER}

NextBody ==
    \/ ChatCompletion
    \/ PrepareOutputDir
    \/ GenerateImageStep
    \/ TranslateStep
    \/ Finish
    \/ AssembleResponse
    \/ CliReturn

SpecBody == InitBody /\ [][NextBody]_vars

-----------------------------------------------------------------------------
(* The server as it runs: api_generate_comic, main, and the entry of       *)
(* generate_dream_comic                                                    *)

\* str(uuid.uuid4()): the n-th value minted
Uuid(n) == "uuid-" \o ToString(n)

\* data.get(key); None and "" are both falsy and nothing below tells them apart
Get(data, key) == IF key \in DOMAIN data THEN data[key] ELSE <<>>

\* a or b
Or(a, b) == IF a # <<>> THEN a ELSE b

\* the request bodies: any of dream_text and prompt, each empty or not
RequestData ==
    UNION {[dom -> {<<>>} \cup DreamTexts] : dom \in SUBSET {"dream_text", "prompt"}}

MissingParameter == <<"Missing required parameter: dream_text">>
UnboundLocalError == <<"local variable 'image_path' referenced before assignment">>

\* ApiAccept creating the session before it looks at dream_text
ApiAcceptMintFirst ==
    /\ pc = "idle"
    /\ \E data \in RequestData, image \in BOOLEAN :
        LET dream_text == Or(Get(data, "dream_text"), Get(data, "prompt"))
            minted == IF image THEN 2 ELSE 1
            sid == Uuid(uuids + minted)
        IN  /\ request' = [kind |-> "api", data |-> data, image |-> image]
            /\ entry' = "api"
            /\ uuids + minted <= MaxUuids
            /\ uuids' = uuids + minted
            /\ fs' = fs \cup {PathJoin(OUTPUT_FOLDER, sid)}
                      \cup (IF image
                            THEN {PathJoin(UPLOAD_FOLDER, Uuid(uuids + 1))}
                            ELSE {})
            /\ IF dream_text = <<>>
               THEN /\ response' = [status |-> 400, body |-> [error |-> MissingParameter]]
                    /\ pc' = "responded"
                    /\ UNCHANGED <<params, session_id>>
               ELSE /\ session_id' = sid
                    /\ params' = ApiParams(dream_text, sid)
                    /\ pc' = "generate"
                    /\ UNCHANGED response
    /\ UNCHANGED clientVars
    /\ UNCHANGED <<content, extracted, comic_panels, i, calls>>

\* POST /api/generate-comic up to the call of generate_dream_comic (lines 313-352)
ApiAccept ==
    /\ pc = "idle"
    /\ \E data \in RequestData, image \in BOOLEAN :
        LET dream_text == Or(Get(data, "dream_text"), Get(data, "prompt"))
            minted == IF image THEN 2 ELSE 1
            sid == Uuid(uuids + minted)
        IN  /\ request' = [kind |-> "api", data |-> data, image |-> image]
            /\ entry' = "api"
            /\ IF dream_text = <<>>
               THEN /\ response' = [status |-> 400, body |-> [error |-> MissingParameter]]
                    /\ pc' = "responded"
                    /\ UNCHANGED <<params, session_id, fs, uuids>>
               ELSE /\ uuids + minted <= MaxUuids
                    /\ uuids' = uuids + minted
                    /\ session_id' = sid
                    /\ fs' = fs \cup {PathJoin(OUTPUT_FOLDER, sid)}
                              \cup (IF image
                                    THEN {PathJoin(UPLOAD_FOLDER, Uuid(uuids + 1))}
                                    ELSE {})
                    /\ params' = ApiParams(dream_text, sid)
                    /\ pc' = "generate"
                    /\ UNCHANGED response
    /\ UNCHANGED clientVars
    /\ UNCHANGED <<content, extracted, comic_panels, i, calls>>

\* main() without --server (lines 409-420)
CliMain ==
    /\ pc = "idle"
    /\ \E text \in {<<>>} \cup DreamTexts, output \in {<<>>, <<"comic.json">>},
          gen \in BOOLEAN, dir \in {<<>>, <<"cli_out">>}, tr \in BOOLEAN :
        /\ request' = [kind |-> "cli", text |-> text, output |-> output,
                       generate_images |-> gen, output_dir |-> dir, translate |-> tr]
        /\ entry' = "cli"
        /\ IF text # <<>>
           THEN params' = CliParams(text, output, gen, dir, tr) /\ pc' = "generate"
           ELSE UNCHANGED params /\ pc' = "exited"
    /\ UNCHANGED clientVars
    /\ UNCHANGED <<content, extracted, session_id, comic_panels, i, calls, fs,
                   response, uuids>>

\* generate_dream_comic up to its try block (lines 84-100): line 98 reads the
\* local image_path, which is assigned only at line 151, so the read raises
\* UnboundLocalError outside the try; api_generate_comic catches it at line
\* 383, main does not
GenerateDreamComicEntry ==
    /\ pc = "generate"
    /\ IF entry = "api"
       THEN /\ response' = [status |-> 500, body |-> [error |-> UnboundLocalError]]
            /\ pc' = "responded"
       ELSE /\ pc' = "crashed"
            /\ UNCHANGED response
    /\ UNCHANGED clientVars
    /\ UNCHANGED <<content, extracted, entry, request, params, session_id, comic_panels,
                   i, calls, fs, uuids>>

\* the server waits for the next request / the command is run again
NextRequest ==
    /\ pc \in {"responded", "crashed", "exited"}
    /\ pc' = "idle"
    /\ entry' = None
    /\ request' = NoRequest
    /\ params' = NoParams
    /\ session_id' = None
    /\ response' = NoResponse
    /\ UNCHANGED clientVars
    /\ UNCHANGED <<content, extracted, comic_panels, i, calls, fs, uuids>>

Init ==
    /\ content = <<>>
    /\ extracted = NotRun
    /\ pc = "idle"
    /\ fs = {Cwd, OUTPUT_FOLDER, UPLOAD_FOLDER}
    /\ Idle

Next ==
    \/ ApiAccept
    \/ CliMain
    \/ GenerateDreamComicEntry
    \/ NextRequest

Spec == Init /\ [][Next]_vars

-----------------------------------------------------------------------------
(* The client (dream_comic_generator_client.py).                           *)
(*                                                                         *)
(* One browser session at a time works on the dream_comics directory, and  *)
(* the file-system calls of the client (mkdir, open, rmtree, save) do not  *)
(* fail.  The server is the remote service behind url: what it answers is  *)
(* an input of the client.  A step is one click together with the script   *)
(* runs it causes, st.experimental_rerun() included; a click is handled    *)
(* against the list of generations the run that handles it reads.          *)
(***************************************************************************)

MaxSessions == 3

\* a session directory without metadata.json
NoMetadata == [session_id |-> None]

\* the session state and the disk, as the functions below pass them on
ClientState ==
    [view_mode |-> view_mode, selected_session |-> selected_session,
     refresh_history |-> refresh_history, history_dir |-> history_dir,
     dream_comics |-> dream_comics]

Becomes(st) ==
    /\ view_mode' = st.view_mode
    /\ selected_session' = st.selected_session
    /\ refresh_history' = st.refresh_history
    /\ history_dir' = st.history_dir
    /\ dream_comics' = st.dream_comics

\* shutil.rmtree(session_dir)
Rmtree(dirs, sid) == [x \in (DOMAIN dirs) \ {sid} |-> dirs[x]]

\* the text the user typed: nothing, or a dream
Prompts == {<<>>} \cup DreamTexts

\* the panels that carry image_url in a comic the server returns
UrlSets == {1..4, {1, 2, 4}, {}}

\* the panels whose image the server delivers while one comic is displayed
FetchOutcomes == {1..4, {1, 2}, {}}

\* response.json() of a generated comic (the payload api_generate_comic
\* builds): panel n carries image_url exactly when n \in urls
ResponseData(sid, urls) ==
    [session_id |-> sid,
     panels |-> [k \in {PanelKey(n) : n \in 1..4} |->
                    LET n == CHOOSE m \in 1..4 : PanelKey(m) = k
                    IN  [description |-> <<"scene">>, chinese |-> <<"zh">>]
                        @@ (IF n \in urls
                            THEN [image_url |-> <<"/api/images", sid, PanelFile(n)>>]
                            ELSE EmptyDict)]]

\* save_generation_metadata (lines 44-58); the timestamp is the time of the
\* call, which grows from one generation to the next
save_generation_metadata(st, sid, prompt, response_data, timestamp) ==
    LET metadata == [session_id |-> sid, timestamp |-> timestamp, prompt |-> prompt,
                     response_data |-> response_data]
        images == IF sid \in DOMAIN st.dream_comics
                  THEN st.dream_comics[sid].images ELSE {}
    IN  [st EXCEPT !.history_dir = TRUE,
                   !.dream_comics = DictSet(@, sid, [metadata |-> metadata,
                                                     images |-> images])]

\* delete_session leaving the session state as it was
delete_session_no_reset(st, sid) ==
    IF sid \in DOMAIN st.dream_comics
    THEN [st EXCEPT !.dream_comics = Rmtree(@, sid),
                    !.refresh_history = TRUE] @@ [returned |-> TRUE]
    ELSE st @@ [returned |-> FALSE]

\* delete_session removing metadata.json only
delete_session_metadata_only(st, sid) ==
    LET selected == /\ st.selected_session # NoSelection
                    /\ st.selected_session.session_id = sid
    IN  IF sid \in DOMAIN st.dream_comics
        THEN [st EXCEPT !.dream_comics[sid].metadata = NoMetadata,
                        !.refresh_history = TRUE,
                        !.selected_session = IF selected THEN NoSelection ELSE @,
                        !.view_mode = IF selected THEN "new" ELSE @]
             @@ [returned |-> TRUE]
        ELSE st @@ [returned |-> FALSE]

\* delete_session (lines 61-76)
delete_session(st, sid) ==
    LET selected == /\ st.selected_session # NoSelection
                    /\ st.selected_session.session_id = sid
    IN  IF sid \in DOMAIN st.dream_comics
        THEN [st EXCEPT !.dream_comics = Rmtree(@, sid),
                        !.refresh_history = TRUE,
                        !.selected_session = IF selected THEN NoSelection ELSE @,
                        !.view_mode = IF selected THEN "new" ELSE @]
             @@ [returned |-> TRUE]
        ELSE st @@ [returned |-> FALSE]

\* delete_all_history emptying the session directories instead of removing
\* them
delete_all_history_keep_dirs(st) ==
    IF st.history_dir
    THEN [st EXCEPT !.dream_comics = [x \in DOMAIN @ |->
                                        [metadata |-> NoMetadata, images |-> {}]],
                    !.refresh_history = TRUE,
                    !.selected_session = NoSelection,
                    !.view_mode = "new"] @@ [returned |-> TRUE]
    ELSE st @@ [returned |-> FALSE]

\* delete_all_history (lines 79-93)
delete_all_history(st) ==
    IF st.history_dir
    THEN [st EXCEPT !.dream_comics = EmptyDict,
                    !.refresh_history = TRUE,
                    !.selected_session = NoSelection,
                    !.view_mode = "new"] @@ [returned |-> TRUE]
    ELSE st @@ [returned |-> FALSE]

\* generations.sort(key=timestamp, reverse=True) on a set of metadata records
RECURSIVE SortNewestFirst(_)
SortNewestFirst(generations) ==
    IF generations = {} THEN <<>>
    ELSE LET newest == CHOOSE g \in generations :
                          \A h \in generations : h.timestamp <= g.timestamp
         IN  <<newest>> \o SortNewestFirst(generations \ {newest})

\* get_previous_generations (lines 96-118)
get_previous_generations(st) ==
    IF ~st.history_dir THEN <<>>
    ELSE SortNewestFirst({st.dream_comics[sid].metadata :
                            sid \in {x \in DOMAIN st.dream_comics :
                                        st.dream_comics[x].metadata # NoMetadata}})

\* display_image_from_url (lines 171-201); fetched holds the panels whose GET
\* answers 200 with an image
display_image_from_url(st, panel_num, sid, fetched) ==
    IF sid \in DOMAIN st.dream_comics /\ panel_num \in st.dream_comics[sid].images
    THEN st
    ELSE IF panel_num \in fetched
    THEN [st EXCEPT !.history_dir = TRUE,
                    !.dream_comics =
                        IF sid \in DOMAIN @
                        THEN [@ EXCEPT ![sid].images = @ \cup {panel_num}]
                        ELSE DictSet(@, sid, [metadata |-> NoMetadata,
                                              images |-> {panel_num}])]
    ELSE st

\* the four panel blocks (lines 136-168 and 303-341) from panel n on: the
\* subscript ['image_url'] raises KeyError on a panel without one
RECURSIVE DisplayPanels(_, _, _, _, _)
DisplayPanels(st, response_data, sid, fetched, n) ==
    IF n > 4 THEN [st |-> st, raised |-> FALSE]
    ELSE IF "image_url" \notin DOMAIN response_data.panels[PanelKey(n)]
    THEN [st |-> st, raised |-> TRUE]
    ELSE DisplayPanels(display_image_from_url(st, n, sid, fetched),
                       response_data, sid, fetched, n + 1)

\* display_comic_from_metadata (lines 121-168)
display_comic_from_metadata(st, metadata, fetched) ==
    DisplayPanels(st, metadata.response_data, metadata.session_id, fetched, 1)

\* line 231: the list is not empty and refresh_history is set, so the run
\* clears the flag and starts the script again with no button pressed
RefreshPending(st) == get_previous_generations(st) # <<>> /\ st.refresh_history

\* the main content area of a run in which no main-area button is pressed
\* (lines 258-260 and 269-275)
MainArea(st, fetched) ==
    IF st.view_mode = "history" /\ st.selected_session # NoSelection
    THEN display_comic_from_metadata(st, st.selected_session, fetched).st
    ELSE st

\* a run of the script from the history section on (lines 226-233, then the
\* main area), no history button being pressed
Rerun(st, fetched) ==
    MainArea(IF RefreshPending(st) THEN [st EXCEPT !.refresh_history = FALSE] ELSE st,
             fetched)

\* what the POST of line 284 ends in: a timeout, an answer without
\* session_id (the server's error payloads), or a comic
Outcomes ==
    {[kind |-> k, urls |-> {}] : k \in {"timeout", "error"}}
        \cup {[kind |-> "comic", urls |-> u] : u \in UrlSets}

\* the page is opened in a new browser session: lines 15-20 set the session
\* state, the disk is as it was left
Reload ==
    /\ Becomes([ClientState EXCEPT !.view_mode = "new",
                                   !.selected_session = NoSelection,
                                   !.refresh_history = FALSE])
    /\ UNCHANGED served
    /\ UNCHANGED serverVars

\* "Create New Comic" (lines 207-209)
ClickCreateNew ==
    /\ Becomes(Rerun([ClientState EXCEPT !.view_mode = "new",
                                          !.selected_session = NoSelection],
                      {}))
    /\ UNCHANGED served
    /\ UNCHANGED serverVars

\* the delete-all button (lines 220-223)
ClickDeleteAll ==
    /\ \E fetched \in FetchOutcomes :
        LET deleted == delete_all_history(ClientState)
        IN  Becomes(Rerun(IF deleted.returned
                          THEN [deleted EXCEPT !.refresh_history = TRUE]
                          ELSE deleted,
                          fetched))
    /\ UNCHANGED served
    /\ UNCHANGED serverVars

\* the view button of entry idx of the history list (lines 245-247), then
\* the history view (lines 258-260)
ClickView(idx) ==
    /\ idx \in 1..Len(get_previous_generations(ClientState))
    /\ \E fetched \in FetchOutcomes :
        IF RefreshPending(ClientState)
        THEN Becomes(Rerun(ClientState, fetched))
        ELSE Becomes(MainArea(
                [ClientState EXCEPT
                    !.view_mode = "history",
                    !.selected_session = get_previous_generations(ClientState)[idx]],
                fetched))
    /\ UNCHANGED served
    /\ UNCHANGED serverVars

\* the delete button of entry idx of the history list (lines 251-255)
ClickDelete(idx) ==
    /\ idx \in 1..Len(get_previous_generations(ClientState))
    /\ \E fetched \in FetchOutcomes :
        IF RefreshPending(ClientState)
        THEN Becomes(Rerun(ClientState, fetched))
        ELSE LET deleted == delete_session(
                                ClientState,
                                get_previous_generations(ClientState)[idx].session_id)
             IN  IF deleted.returned
                 THEN Becomes(Rerun([deleted EXCEPT !.refresh_history = TRUE], fetched))
                 ELSE Becomes(MainArea(deleted, fetched))
    /\ UNCHANGED served
    /\ UNCHANGED serverVars

\* "Delete This Comic" under the comic of the history view (lines 258-268);
\* the button is reached only when the comic was displayed without KeyError
ClickDeleteThis ==
    /\ view_mode = "history"
    /\ selected_session # NoSelection
    /\ \E fetched \in FetchOutcomes :
        IF RefreshPending(ClientState)
        THEN Becomes(Rerun(ClientState, fetched))
        ELSE LET shown == display_comic_from_metadata(ClientState, selected_session,
                                                      fetched)
                 deleted == delete_session(shown.st, selected_session.session_id)
             IN  IF shown.raised THEN Becomes(shown.st)
                 ELSE IF deleted.returned
                 THEN Becomes(Rerun([deleted EXCEPT !.refresh_history = TRUE], fetched))
                 ELSE Becomes(deleted)
    /\ UNCHANGED serverVars
    /\ UNCHANGED served

\* "Generate Comic" in the new-comic view (lines 269-352): the metadata is
\* saved before the panels are displayed; a KeyError of the display is
\* caught at line 349
ClickGenerate ==
    /\ ~(view_mode = "history" /\ selected_session # NoSelection)
    /\ \E prompt \in Prompts, outcome \in Outcomes, fetched \in FetchOutcomes :
        IF RefreshPending(ClientState)
        THEN Becomes(Rerun(ClientState, fetched)) /\ UNCHANGED served
        ELSE IF prompt = <<>> \/ outcome.kind # "comic"
        THEN UNCHANGED clientVars
        ELSE LET sid == Uuid(served + 1)
                 response_data == ResponseData(sid, outcome.urls)
                 saved == save_generation_metadata(ClientState, sid, prompt,
                                                   response_data, served + 1)
             IN  /\ served < MaxSessions
                 /\ served' = served + 1
                 /\ Becomes(DisplayPanels(saved, response_data, sid, fetched, 1).st)
    /\ UNCHANGED serverVars

InitClient ==
    /\ content = <<>>
    /\ extracted = NotRun
    /\ pc = "idle"
    /\ fs = {Cwd, OUTPUT_FOLDER, UPLOAD_FOLDER}
    /\ Idle

NextClient ==
    \/ Reload
    \/ ClickCreateNew
    \/ ClickDeleteAll
    \/ \E idx \in 1..MaxSessions : ClickView(idx)
    \/ \E idx \in 1..MaxSessions : ClickDelete(idx)
    \/ ClickDeleteThis
    \/ ClickGenerate

SpecClient == InitClient /\ [][NextClient]_vars

-----------------------------------------------------------------------------
(* Properties of extract_panels (SpecExtract) *)

AllPanelKeys == {PanelKey(n) : n \in 1..4}

\* C1: for every input text extract_panels returns without raising, and the
\* mapping returned has exactly the keys panel1, panel2, panel3, panel4.
C1_ExtractTotalFourKeys ==
    pc = "extracted" =>
        /\ ~extracted.raised
        /\ DOMAIN extracted.panels = AllPanelKeys

\* extract_panels has run on a text with repeated, out-of-order markers
\* and a marker line without a colon
C1_Witness ==
    /\ pc = "extracted"
    /\ content = Join(<<LnPanel(2), LnNoColon, LnPanel(1)>>)
    /\ ~extracted.raised

\* the panel a line introduces: the first of 1..4 whose marker it holds, else 0
LineMarker(line) ==
    IF \E n \in 1..4 : Contains(line, Marker(n))
    THEN CHOOSE n \in 1..4 :
            Contains(line, Marker(n)) /\ \A m \in 1..(n - 1) : ~Contains(line, Marker(m))
    ELSE 0

StartsWith(s, prefix) ==
    Len(s) >= Len(prefix) /\ SubSeq(s, 1, Len(prefix)) = prefix

\* the indices of the marker lines, in order
MarkerLines(lines) == {k \in 1..Len(lines) : LineMarker(lines[k]) # 0}

\* the text holds exactly four marker lines, "Panel 1:" .. "Panel 4:" in order,
\* each at the start of its line
WellFormed(text) ==
    LET lines == Split(text, "\n")
        ms == MarkerLines(lines)
    IN  /\ Cardinality(ms) = 4
        /\ \A k \in ms :
              LET n == LineMarker(lines[k])
              IN  /\ n = Cardinality({j \in ms : j <= k})
                  /\ StartsWith(LStrip(lines[k]), Marker(n) \o <<":">>)

\* the non-blank lines among lines[from..to], each trimmed and led by a space
RECURSIVE Continuation(_, _, _)
Continuation(lines, from, to) ==
    IF from > to THEN <<>>
    ELSE (IF Strip(lines[from]) # <<>> THEN <<" ">> \o Strip(lines[from]) ELSE <<>>)
         \o Continuation(lines, from + 1, to)

\* what C2 states for panel n of a well-formed text
ExpectedDescription(text, n) ==
    LET lines == Split(text, "\n")
        ms == MarkerLines(lines)
        k == CHOOSE j \in ms : LineMarker(lines[j]) = n
        later == {j \in ms : j > k}
        next == IF later = {} THEN Len(lines) + 1
                ELSE CHOOSE j \in later : \A j2 \in later : j <= j2
        line == LStrip(lines[k])
    IN  Strip(SubSeq(line, Len(Marker(n)) + 2, Len(line)))
        \o Continuation(lines, k + 1, next - 1)

\* C2: for a text with well-formed "Panel 1:" .. "Panel 4:" marker lines in
\* order, each panel is the trimmed text after its marker's colon followed by
\* every non-blank line up to the next marker, each led by one space, and no
\* panel is the placeholder; the four-line example yields its four subjects.
C2_WellFormedExtraction ==
    pc = "extracted" =>
        /\ WellFormed(content) =>
              \A n \in 1..4 :
                 /\ ~extracted.raised
                 /\ extracted.panels[PanelKey(n)] = ExpectedDescription(content, n)
                 /\ extracted.panels[PanelKey(n)] # Placeholder(n)
        /\ content = Join(<<LnPanel(1), LnPanel(2), LnPanel(3), LnPanel(4)>>) =>
              \A n \in 1..4 : extracted.panels[PanelKey(n)] = <<Subject(n)>>

\* a well-formed text with a padded continuation line and a blank line has
\* been extracted
C2_Witness ==
    /\ pc = "extracted"
    /\ WellFormed(content)
    /\ extracted.panels["panel1"] = <<"A cat.", " ", "and more">>
    /\ extracted.panels["panel2"] = <<"Time", ":", " ", "noon">>
    /\ Contains(content, <<"\n", " ", "\n">>)

-----------------------------------------------------------------------------
(* Properties of the generation run (SpecBody) and of the server (Spec) *)

PanelCalls(svc, n) == {k \in 1..Len(calls) : calls[k].svc = svc /\ calls[k].panel = n}

Returned == pc \in {"returned", "responded", "exited"}

\* C3: a panel whose description is the placeholder is never passed to
\* generate_image or to translate_to_traditional_chinese; a reply without
\* markers gives four placeholder panels and no image or translation call.
C3_PlaceholderNeverSent ==
    /\ \A k \in 1..Len(calls) :
          calls[k].svc \in {"image", "translate"} =>
             /\ \A n \in 1..4 : calls[k].prompt # Placeholder(n)
             /\ comic_panels[PanelKey(calls[k].panel)] # Placeholder(calls[k].panel)
    /\ (content = ReplyProse /\ "error" \notin DOMAIN comic_panels) =>
          /\ \A n \in 1..4 : comic_panels[PanelKey(n)] = Placeholder(n)
          /\ \A k \in 1..Len(calls) : calls[k].svc = "chat"

\* a run with images and translations on has ended for a reply that lacks
\* "Panel 3": three image calls, three translation calls, none for panel 3
C3_Witness ==
    /\ pc = "responded"
    /\ content = ReplyNoThree
    /\ comic_panels["panel3"] = Placeholder(3)
    /\ Len(calls) = 7
    /\ PanelCalls("image", 3) = {} /\ PanelCalls("translate", 3) = {}

\* the dream text of an API request
RequestText(req) == Or(Get(req.data, "dream_text"), Get(req.data, "prompt"))

\* C4: a request to the generation endpoint with a non-empty dream_text is
\* answered with a success payload holding session_id and the panels map.
C4_NonEmptyRequestSucceeds ==
    (pc = "responded" /\ request.kind = "api" /\ RequestText(request) # <<>>) =>
        /\ response.status = 200
        /\ {"session_id", "panels"} \subseteq DOMAIN response.body

ImagesDone == Returned /\ params.generate_images /\ "error" \notin DOMAIN comic_panels

ExactlyOneImageCall(n, description) ==
    /\ Cardinality(PanelCalls("image", n)) = 1
    /\ \A k \in PanelCalls("image", n) : calls[k].prompt = description

C8_FourPanelEntries ==
    (pc = "responded" /\ response.status = 200) =>
        /\ DOMAIN response.body.panels = AllPanelKeys
        /\ \A key \in AllPanelKeys : "description" \in DOMAIN response.body.panels[key]

\* a success payload has been returned for a reply with repeated,
\* out-of-order markers and none for panels 3 and 4
C8_Witness ==
    /\ pc = "responded"
    /\ response.status = 200
    /\ content = ReplyShuffled
    /\ response.body.panels["panel3"].description = Placeholder(3)
    /\ response.body.panels["panel2"].description = <<"A dog.">>

\* the image file of panel n in the session's output directory
SessionImage(n) == PathJoin(PathJoin(OUTPUT_FOLDER, session_id), PanelFile(n))

\* C9: in the response, panel N has image_url, of the form
\* /api/images/{session_id}/{filename}, if and only if panel N's image file
\* exists in the session's output directory.
C9_ImageUrlIffFileExists ==
    (pc = "responded" /\ response.status = 200) =>
        \A n \in 1..4 :
            LET panel == response.body.panels[PanelKey(n)]
            IN  /\ "image_url" \in DOMAIN panel <=> PathExists(fs, SessionImage(n))
                /\ "image_url" \in DOMAIN panel =>
                      panel.image_url = <<"/api/images", session_id, PanelFile(n)>>

\* a response in which panel 1's image was saved, panel 2's image call
\* failed and panel 3 was skipped
C9_Witness ==
    /\ pc = "responded"
    /\ content = ReplyNoThree
    /\ \E k \in PanelCalls("image", 1) : calls[k].ok
    /\ \E k \in PanelCalls("image", 2) : ~calls[k].ok
    /\ PanelCalls("image", 3) = {}
    /\ "image_url" \in DOMAIN response.body.panels["panel1"]
    /\ "image_url" \notin DOMAIN response.body.panels["panel2"]

FailedTranslations == {k \in 1..Len(calls) : calls[k].svc = "translate" /\ ~calls[k].ok}

FailedImages == {k \in 1..Len(calls) : calls[k].svc = "image" /\ ~calls[k].ok}

\* the run has returned from the translation loop too
AllDone == ImagesDone /\ params.translate_to_chinese

\* C11: a failed image call for panel i leaves only panel i without an image:
\* the later panels still get their image calls, every translation call is
\* still issued, and the request ends with a result for all four panels.
C11_ImageFailureIsolated ==
    /\ FailedImages # {} => "error" \notin DOMAIN comic_panels
    /\ \A k \in FailedImages :
          /\ comic_panels[ImageKey(calls[k].panel)] = FailedImage
          /\ ~PathExists(fs, PathJoin(params.output_dir, PanelFile(calls[k].panel)))
    /\ (ImagesDone /\ FailedImages # {}) =>
          /\ AllPanelKeys \subseteq DOMAIN comic_panels
          /\ \A n \in 1..4 :
                /\ ValidForImage(comic_panels[PanelKey(n)]) =>
                      Cardinality(PanelCalls("image", n)) = 1
                /\ (\E k \in PanelCalls("image", n) : calls[k].ok) =>
                      /\ comic_panels[ImageKey(n)] = PathJoin(params.output_dir, PanelFile(n))
                      /\ PathExists(fs, comic_panels[ImageKey(n)])
                /\ (params.translate_to_chinese /\ ~SkipTranslation(comic_panels[PanelKey(n)])) =>
                      Cardinality(PanelCalls("translate", n)) = 1
    /\ (pc = "responded" /\ FailedImages # {}) =>
          /\ response.status = 200
          /\ DOMAIN response.body.panels = AllPanelKeys
          /\ \A n \in 1..4 :
                "image_url" \in DOMAIN response.body.panels[PanelKey(n)]
                    <=> \E k \in PanelCalls("image", n) : calls[k].ok

\* an API response after the image call of panel 1 failed and the calls for
\* panels 2, 3, 4 and the four translation calls went out
C11_Witness ==
    /\ pc = "responded"
    /\ content = ReplyFour
    /\ \E k \in FailedImages : calls[k].panel = 1
    /\ Len(calls) = 9
    /\ "image_url" \notin DOMAIN response.body.panels["panel1"]
    /\ "image_url" \in DOMAIN response.body.panels["panel2"]

\* the place of a call in [chat, image 1..4, translation 1..4]
CallRank(call) ==
    IF call.svc = "chat" THEN 0
    ELSE IF call.svc = "image" THEN call.panel
    ELSE 4 + call.panel

\* C12: the external calls of a request are a subsequence of [chat, image 1,
\* .., image 4, translation 1, .., translation 4]: chat first and alone, images
\* before translations, panel order inside a phase, no call issued twice.
C12_CallOrder ==
    /\ \A j, k \in 1..Len(calls) : j < k => CallRank(calls[j]) < CallRank(calls[k])
    /\ \A k \in 1..Len(calls) :
          /\ calls[k].svc \in {"chat", "image", "translate"}
          /\ calls[k].svc # "chat" =>
                /\ calls[k].panel \in 1..4
                /\ calls[1].svc = "chat" /\ calls[1].ok
    /\ (pc = "chat") => calls = <<>>
    /\ (pc # "chat") => (calls # <<>> /\ calls[1].svc = "chat")

\* a run has ended with all nine calls made, the image call of panel 2 and
\* the translation call of panel 3 having failed
C12_Witness ==
    /\ Returned
    /\ Len(calls) = 9
    /\ \E k \in FailedImages : calls[k].panel = 2
    /\ \E k \in FailedTranslations : calls[k].panel = 3

-----------------------------------------------------------------------------
(* More properties of extract_panels (SpecExtract) *)

\* the lines of the text that introduce panel n
Introducing(text, n) ==
    {k \in 1..Len(Split(text, "\n")) : LineMarker(Split(text, "\n")[k]) = n}

\* the last line introducing panel n, the text after its first colon, and
\* the lines that follow it up to the next marker line
LastMarkerDescription(text, n) ==
    LET lines == Split(text, "\n")
        k == CHOOSE j \in Introducing(text, n) : \A j2 \in Introducing(text, n) : j2 <= j
        later == {j \in MarkerLines(lines) : j > k}
        next == IF later = {} THEN Len(lines) + 1
                ELSE CHOOSE j \in later : \A j2 \in later : j <= j2
        colon == FirstIndex(lines[k], ":")
        first == IF colon = 0 THEN <<>>
                 ELSE Strip(SubSeq(lines[k], colon + 1, Len(lines[k])))
    IN  [first |-> first, rest |-> Continuation(lines, k + 1, next - 1)]

\* C15 as stated: extract_panels never returns an empty description.
C15_NoEmptyDescription ==
    pc = "extracted" =>
        \A n \in 1..4 : extracted.panels[PanelKey(n)] # <<>>

\* C15 amended: an index that no line introduces gets the placeholder; an
\* index whose last marker line has no text after it and no continuation
\* lines keeps the empty description.
C15_PlaceholderOnlyForMissingMarker ==
    pc = "extracted" =>
        \A n \in 1..4 :
            IF Introducing(content, n) = {}
            THEN extracted.panels[PanelKey(n)] = Placeholder(n)
            ELSE LET d == LastMarkerDescription(content, n)
                 IN  (d.first = <<>> /\ d.rest = <<>>) =>
                        extracted.panels[PanelKey(n)] = <<>>

\* "Panel 3:" alone has been extracted: panel 3 is empty, the others are
\* placeholders
C15_Witness ==
    /\ pc = "extracted"
    /\ content = LnBare
    /\ extracted.panels["panel3"] = <<>>
    /\ extracted.panels["panel1"] = Placeholder(1)

\* C16: when several lines introduce the same panel N, its description is the
\* text after the first colon of the last such line followed by the
\* continuation lines after it; what was collected before is dropped.
C16_LastMarkerWins ==
    pc = "extracted" =>
        \A n \in 1..4 :
            Introducing(content, n) # {} =>
                LET d == LastMarkerDescription(content, n)
                IN  extracted.panels[PanelKey(n)] = d.first \o d.rest

\* a text whose first and third lines both introduce panel 1 has been
\* extracted, the continuation of the first being dropped
C16_Witness ==
    /\ pc = "extracted"
    /\ content = Join(<<LnPanel(1), LnCont, LnTwo>>)
    /\ Cardinality(Introducing(content, 1)) = 2
    /\ extracted.panels["panel1"] = <<"unlike", " ", "Panel", " ", "1">>

-----------------------------------------------------------------------------
(* Properties of the client (SpecClient) *)

SessionIds == {Uuid(k) : k \in 1..MaxSessions}

\* the sessions get_previous_generations lists
Listed(st) ==
    {get_previous_generations(st)[k].session_id :
        k \in 1..Len(get_previous_generations(st))}

\* a session the client once saved whose directory is no more
Gone(s) ==
    /\ \E k \in 1..served : s = Uuid(k)
    /\ s \notin DOMAIN dream_comics

\* the step calls delete_session(s) and the call returns True: from the
\* history list, or from the history view below a displayed comic
DeleteSucceeds(s) ==
    /\ s \in DOMAIN dream_comics
    /\ ~RefreshPending(ClientState)
    /\ \/ \E idx \in 1..Len(get_previous_generations(ClientState)) :
            /\ get_previous_generations(ClientState)[idx].session_id = s
            /\ ClickDelete(idx)
       \/ /\ ClickDeleteThis
          /\ selected_session.session_id = s
          /\ ~display_comic_from_metadata(ClientState, selected_session, {}).raised

\* C13: after delete_session(s) has succeeded the directory of s, with its
\* metadata record and panel images, is gone and s is no longer listed
\* while every other session still is; from then on the directory stays
\* away and no listing holds s.
C13_DeletedSessionStaysDeleted ==
    [][\A s \in SessionIds :
        /\ DeleteSucceeds(s) =>
              /\ s \notin DOMAIN dream_comics'
              /\ Listed(ClientState)' = Listed(ClientState) \ {s}
        /\ Gone(s) => (Gone(s)' /\ s \notin Listed(ClientState)')]_vars

\* the first of two saved sessions has been deleted; the second one is
\* listed and on display
C13_Witness ==
    /\ served = 2
    /\ Gone("uuid-1")
    /\ Listed(ClientState) = {"uuid-2"}
    /\ view_mode = "history"
    /\ selected_session.session_id = "uuid-2"

\* the directory of s holds a metadata record
Saved(s) == s \in DOMAIN dream_comics /\ dream_comics[s].metadata # NoMetadata

\* the panels of a metadata record that carry image_url
PanelsWithUrl(metadata) ==
    {n \in 1..4 : "image_url" \in DOMAIN metadata.response_data.panels[PanelKey(n)]}

\* C14 as stated: once the metadata record of a session is written, its
\* directory is either left exactly as it is or removed as a whole.
C14_WriteOnceDeleteWhole ==
    [][\A s \in SessionIds :
        Saved(s) => (s \notin DOMAIN dream_comics' \/ dream_comics'[s] = dream_comics[s])]_vars

\* C14 amended: the metadata record is written once, together with the
\* directory, and never changes; afterwards the only additions are images of
\* panels with an image_url that are not cached yet, saved while the comic
\* is displayed after generation or in the history view; nothing is removed
\* from the directory short of the whole directory.
C14_MetadataWriteOnceImagesCached ==
    [][\A s \in SessionIds :
        /\ Saved(s) =>
              \/ s \notin DOMAIN dream_comics'
              \/ /\ dream_comics'[s].metadata = dream_comics[s].metadata
                 /\ dream_comics[s].images \subseteq dream_comics'[s].images
                 /\ dream_comics'[s].images \subseteq PanelsWithUrl(dream_comics[s].metadata)
                 /\ dream_comics'[s].images # dream_comics[s].images =>
                        /\ view_mode' = "history"
                        /\ selected_session' = dream_comics[s].metadata
        /\ (s \notin DOMAIN dream_comics /\ s \in DOMAIN dream_comics') =>
              /\ ClickGenerate
              /\ s = Uuid(served')
              /\ dream_comics'[s].metadata.session_id = s
              /\ dream_comics'[s].images \subseteq PanelsWithUrl(dream_comics'[s].metadata)]_vars

\* a saved session is on display from history with all four images cached
C14_Witness ==
    /\ served = 1
    /\ Saved("uuid-1")
    /\ view_mode = "history"
    /\ selected_session = dream_comics["uuid-1"].metadata
    /\ dream_comics["uuid-1"].images = 1..4

\* C17: view_mode is 'history' only with a selected session; a step that
\* removes the directory of the selected session resets selected_session
\* and view_mode; the selected session is always one whose directory, with
\* the selected metadata, is on disk.
C17_ViewStateConsistent ==
    /\ [](view_mode = "history" => selected_session # NoSelection)
    /\ [](selected_session # NoSelection =>
            /\ selected_session.session_id \in DOMAIN dream_comics
            /\ dream_comics[selected_session.session_id].metadata = selected_session)
    /\ [][\A s \in SessionIds :
            (/\ selected_session.session_id = s
             /\ s \in DOMAIN dream_comics
             /\ s \notin DOMAIN dream_comics') =>
                (selected_session' = NoSelection /\ view_mode' = "new")]_vars

\* the second of two saved sessions was removed; the view is back to the
\* new-comic form and the first session is still listed
C17_Witness ==
    /\ served = 2
    /\ Gone("uuid-2")
    /\ Listed(ClientState) = {"uuid-1"}
    /\ view_mode = "new"
    /\ selected_session = NoSelection
    /\ ~refresh_history

====
